---------------------------- MODULE Spec2Model ----------------------------
(***************************************************************************)
(* The slideshow sequencer of the Hammerbeam right-hand display widget     *)
(* (delayed-work variant): a Fisher-Yates shuffled display order, a        *)
(* cursor, and a k_work_delayable item whose handler re-arms itself.       *)
(*                                                                         *)
(* Two execution contexts exist: "init", the thread that runs              *)
(* zmk_widget_status_init, and "wq", the work-queue thread that runs the   *)
(* handler of slideshow_work.  Each statement of the handler is one step,  *)
(* so that the two contexts interleave at statement granularity.           *)
(*                                                                         *)
(* The status bar of the widget (battery, charging and connection state    *)
(* and the canvas they are drawn on) is redrawn by the listeners' update   *)
(* callbacks, each taken as one step.  The LVGL-timer variant of the       *)
(* sequencer is run side by side with the delayed-work variant, handler    *)
(* by handler, in the variable pair.                                       *)
(***************************************************************************)
EXTENDS Integers, Sequences, FiniteSets, TLC

(* ------------------------------ bounds -------------------------------- *)

\* Largest catalog size explored (the deployed ARRAY_SIZE(anim_imgs) is 30).
MaxN == 3

\* Width of the random word explored; sys_rand32_get() returns 32 bits.
\* 2^RandBits >= MaxN + 1 keeps every modulus i + 1 within the word's range,
\* and 2^RandBits, like 2^32, is not a multiple of 3.
RandBits == 2

\* The call counter of shuffle_order saturates here (a history counter).
ShuffleCap == 3

\* Largest catalog size explored together with status-bar updates.
MaxNStatus == 2

\* Largest catalog size explored while one index is under observation.
MaxNWatch == 2

(* ------------------------- program constants -------------------------- *)

ART_ROTATE_INTERVAL == 600000

\* uint8_t arithmetic is modulo 2^8.
UINT8_RANGE == 256

\* ARRAY_SIZE(anim_imgs) of the deployed catalog.
DEPLOYED_FRAME_COUNT == 30

Contexts == {"init", "wq"}

\* The tick counter saturates above the (N+1)-th tick (a history counter).
TickCap == MaxN + 2

RECURSIVE Pow2(_)
Pow2(k) == IF k = 0 THEN 1 ELSE 2 * Pow2(k - 1)

\* The values sys_rand32_get() can return, at the explored width.
RandWords == 0 .. (Pow2(RandBits) - 1)

\* Time advances in steps of half a rotation interval.
Quantum == ART_ROTATE_INTERVAL \div 2

\* The age of the observed index saturates here (a history counter).
AgeCap == 2 * MaxNWatch

\* The timer firings explored side by side: two whole cycles and one more.
PairTicks == 2 * MaxN + 1

\* The states of charge explored (zmk_battery_state_of_charge() is a percentage).
BatteryLevels == {0, 100}

Min(a, b) == IF a < b THEN a ELSE b
Max(a, b) == IF a > b THEN a ELSE b

VARIABLES
    ART_FRAME_COUNT,  \* ARRAY_SIZE(anim_imgs), fixed for a behaviour
    order,            \* uint8_t order[ART_FRAME_COUNT], indexed from 0
    order_pos,        \* uint8_t order_pos
    art_box,          \* the children of the art container: the frame of each image
    slideshow_work,   \* state of the delayable work item
    timer,            \* ms left until the work item's timeout expires
    init_pc,          \* position of zmk_widget_status_init
    cb_pc,            \* position of each context inside slideshow_work_cb
    shown,            \* history: frames displayed since the last shuffle_order
    prev_len,         \* history: Len(shown) when shuffle_order last ran
    prev_last,        \* history: the last frame shown before that call (or -1)
    ticks,            \* history: invocations of slideshow_work_cb (saturating)
    shuffles,         \* history: calls of shuffle_order (saturating)
    displays,         \* history: images handed to the renderer (saturating)
    since_display,    \* history: ms since the last display (saturating)
    rand_calls,       \* history: sys_rand32_get() calls of the last shuffle_order
    rearm_failed,     \* history: a k_work_schedule of the handler did not queue
    widget_state,     \* widget->state: battery, charging, connected
    top,              \* the status canvas: what draw_top last drew, <<>> if blank
    watch,            \* history: the catalog index under observation, or -1
    watch_age,        \* history: displays since watch was last displayed
    pair,             \* the two variants of the sequencer run side by side
    u8                \* the 8-bit counters of the sequencer, for catalogs up to 255

vars == <<ART_FRAME_COUNT, order, order_pos, art_box, slideshow_work, timer,
          init_pc, cb_pc, shown, prev_len, prev_last, ticks, shuffles, displays,
          since_display, rand_calls, rearm_failed, widget_state, top,
          watch, watch_age, pair, u8>>

(* --------------------------- shuffle_order ---------------------------- *)

\* An identity fill whose counter starts at 1: order[0] keeps its old value.
RECURSIVE FillIdentityFromOne(_, _, _)
FillIdentityFromOne(ord, i, n) ==
    IF i = 0 THEN FillIdentityFromOne(ord, 1, n)
    ELSE IF i < n
         THEN FillIdentityFromOne([ord EXCEPT ![i] = i], (i + 1) % UINT8_RANGE, n)
         ELSE ord

\* for (uint8_t i = 0; i < ART_FRAME_COUNT; i++) order[i] = i;
RECURSIVE FillIdentity(_, _, _)
FillIdentity(ord, i, n) ==
    IF i < n
    THEN FillIdentity([ord EXCEPT ![i] = i], (i + 1) % UINT8_RANGE, n)
    ELSE ord

\* A swap that forgets tmp: order[j] is written back to itself.
SwapLost(ord, i, j) == [ord EXCEPT ![i] = ord[j], ![j] = ord[j]]

\* uint8_t tmp = order[i]; order[i] = order[j]; order[j] = tmp;
Swap(ord, i, j) == [ord EXCEPT ![i] = ord[j], ![j] = ord[i]]

\* A loop guard that also runs the iteration i = 0.
LoopContinuesInclusive(i) == i >= 0

\* The guard of for (int i = ART_FRAME_COUNT - 1; i > 0; --i).
LoopContinues(i) == i > 0

\* A draw reduced modulo i + 2: it can select the slot after order[i].
DrawIndexWide(word, i) == word % (i + 2)

\* uint32_t j = sys_rand32_get() % (i + 1);
DrawIndex(word, i) == word % (i + 1)

\* for (int i = ART_FRAME_COUNT - 1; i > 0; --i) { j = rand % (i + 1); swap }
\* draws[k] is the word returned by the k-th call of sys_rand32_get().
RECURSIVE FisherYates(_, _, _, _)
FisherYates(ord, i, draws, k) ==
    IF LoopContinues(i)
    THEN LET j == DrawIndex(draws[k], i)
         IN  FisherYates(Swap(ord, i, j), i - 1, draws, k + 1)
    ELSE ord

\* The number of sys_rand32_get() calls of one shuffle_order: one per iteration.
RECURSIVE RandCalls(_)
RandCalls(i) == IF LoopContinues(i) THEN 1 + RandCalls(i - 1) ELSE 0

\* The moduli i + 1 of those calls.
RECURSIVE Moduli(_)
Moduli(i) == IF LoopContinues(i) THEN {i + 1} \cup Moduli(i - 1) ELSE {}

\* The sequences of random words one shuffle_order can consume.
RandSeqs(n) == [1 .. RandCalls(n - 1) -> RandWords]

\* The pairs <<i, j>> of slots one shuffle_order swaps, given the words drawn.
RECURSIVE ShuffleAccesses(_, _, _)
ShuffleAccesses(i, draws, k) ==
    IF LoopContinues(i)
    THEN {<<i, DrawIndex(draws[k], i)>>} \cup ShuffleAccesses(i - 1, draws, k + 1)
    ELSE {}

\* The array shuffle_order leaves behind, given the words it drew.
ShuffleOrder(ord, n, draws) ==
    FisherYates(FillIdentity(ord, 0, n), n - 1, draws, 1)

\* shuffle_order() without its final order_pos = 0.
DoShuffleKeepsCursor ==
    \E draws \in RandSeqs(ART_FRAME_COUNT) :
        /\ order' = ShuffleOrder(order, ART_FRAME_COUNT, draws)
        /\ order_pos' = order_pos
        /\ rand_calls' = Len(draws)
        /\ prev_len' = Len(shown)
        /\ prev_last' = IF shown = <<>> THEN -1 ELSE shown[Len(shown)]
        /\ shown' = <<>>
        /\ shuffles' = Min(shuffles + 1, ShuffleCap)

\* shuffle_order(): the whole function, as one step of its caller.
DoShuffle ==
    \E draws \in RandSeqs(ART_FRAME_COUNT) :
        /\ order' = ShuffleOrder(order, ART_FRAME_COUNT, draws)
        /\ order_pos' = 0
        /\ rand_calls' = Len(draws)
        /\ prev_len' = Len(shown)
        /\ prev_last' = IF shown = <<>> THEN -1 ELSE shown[Len(shown)]
        /\ shown' = <<>>
        /\ shuffles' = Min(shuffles + 1, ShuffleCap)

(* --------------------------- k_work_delayable ------------------------- *)

\* k_work_reschedule semantics: a pending timeout is cancelled and restarted.
KWorkReschedule(delay) ==
    /\ slideshow_work' = IF delay = 0 THEN "queued" ELSE "delayed"
    /\ timer' = delay

\* k_work_schedule(&slideshow_work, K_MSEC(delay)): a no-op when the item is
\* already delayed or queued; otherwise the timeout is started.
KWorkSchedule(delay) ==
    IF slideshow_work \in {"delayed", "queued"}
    THEN /\ UNCHANGED <<slideshow_work, timer>>
    ELSE /\ slideshow_work' = IF delay = 0 THEN "queued" ELSE "delayed"
         /\ timer' = delay

(* ------------------------ slideshow_work_cb --------------------------- *)

\* The age of the observed index once frame has been displayed (saturating).
Aged(frame) ==
    IF watch < 0 THEN watch_age
    ELSE IF frame = watch THEN 0
    ELSE Min(watch_age + 1, AgeCap)

SetPc(c, loc) == cb_pc' = [cb_pc EXCEPT ![c] = loc]

\* order[order_pos]: a read past the array yields an arbitrary byte, here any
\* value up to ART_FRAME_COUNT (which is no catalog index).
ReadOrder(pos) ==
    IF pos \in DOMAIN order THEN {order[pos]} ELSE 0 .. ART_FRAME_COUNT

\* The test written order_pos >= 0: every tick reshuffles.
CbCheckAlways(c) ==
    /\ cb_pc[c] = "check"
    /\ SetPc(c, IF order_pos >= 0 THEN "shuffle" ELSE "clean")
    /\ UNCHANGED <<ART_FRAME_COUNT, u8, pair, watch, watch_age, widget_state,
                   top, order, order_pos, art_box, slideshow_work, timer,
                   init_pc, shown, prev_len, prev_last, ticks, shuffles,
                   displays, since_display, rand_calls, rearm_failed>>

\* The test written order_pos >= ART_FRAME_COUNT - 1: reshuffles one tick early.
CbCheckEarly(c) ==
    /\ cb_pc[c] = "check"
    /\ SetPc(c, IF order_pos >= ART_FRAME_COUNT - 1 THEN "shuffle" ELSE "clean")
    /\ UNCHANGED <<ART_FRAME_COUNT, u8, pair, watch, watch_age, widget_state,
                   top, order, order_pos, art_box, slideshow_work, timer,
                   init_pc, shown, prev_len, prev_last, ticks, shuffles,
                   displays, since_display, rand_calls, rearm_failed>>

\* The test written order_pos > ART_FRAME_COUNT: reshuffles one tick late.
CbCheckOffByOne(c) ==
    /\ cb_pc[c] = "check"
    /\ SetPc(c, IF order_pos > ART_FRAME_COUNT THEN "shuffle" ELSE "clean")
    /\ UNCHANGED <<ART_FRAME_COUNT, u8, pair, watch, watch_age, widget_state,
                   top, order, order_pos, art_box, slideshow_work, timer,
                   init_pc, shown, prev_len, prev_last, ticks, shuffles,
                   displays, since_display, rand_calls, rearm_failed>>

\* if (order_pos >= ART_FRAME_COUNT)
CbCheck(c) ==
    /\ cb_pc[c] = "check"
    /\ SetPc(c, IF order_pos >= ART_FRAME_COUNT THEN "shuffle" ELSE "clean")
    /\ UNCHANGED <<ART_FRAME_COUNT, u8, pair, watch, watch_age, widget_state,
                   top, order, order_pos, art_box, slideshow_work, timer,
                   init_pc, shown, prev_len, prev_last, ticks, shuffles,
                   displays, since_display, rand_calls, rearm_failed>>

\* shuffle_order();
CbShuffle(c) ==
    /\ cb_pc[c] = "shuffle"
    /\ DoShuffle
    /\ SetPc(c, "clean")
    /\ UNCHANGED <<ART_FRAME_COUNT, u8, pair, watch, watch_age, widget_state,
                   top, art_box, slideshow_work, timer, init_pc, ticks,
                   displays, since_display, rearm_failed>>

\* lv_obj_clean applied to the whole widget: the status canvas goes as well.
CbCleanWidget(c) ==
    /\ cb_pc[c] = "clean"
    /\ art_box' = <<>>
    /\ top' = <<>>
    /\ SetPc(c, "img")
    /\ UNCHANGED <<ART_FRAME_COUNT, u8, pair, watch, watch_age, widget_state,
                   order, order_pos, slideshow_work, timer, init_pc, shown,
                   prev_len, prev_last, ticks, shuffles, displays,
                   since_display, rand_calls, rearm_failed>>

\* The handler without lv_obj_clean(art_box): the old image is kept.
CbCleanSkipped(c) ==
    /\ cb_pc[c] = "clean"
    /\ SetPc(c, "img")
    /\ UNCHANGED <<ART_FRAME_COUNT, u8, pair, watch, watch_age, widget_state,
                   top, order, order_pos, art_box, slideshow_work, timer,
                   init_pc, shown, prev_len, prev_last, ticks, shuffles,
                   displays, since_display, rand_calls, rearm_failed>>

\* lv_obj_clean(art_box);
CbClean(c) ==
    /\ cb_pc[c] = "clean"
    /\ art_box' = <<>>
    /\ SetPc(c, "img")
    /\ UNCHANGED <<ART_FRAME_COUNT, u8, pair, watch, watch_age, widget_state,
                   top, order, order_pos, slideshow_work, timer, init_pc,
                   shown, prev_len, prev_last, ticks, shuffles, displays,
                   since_display, rand_calls, rearm_failed>>

\* The read without the advance: anim_imgs[order[order_pos]].
CbImgNoAdvance(c) ==
    /\ cb_pc[c] = "img"
    /\ \E frame \in ReadOrder(order_pos) :
          /\ art_box' = Append(art_box, frame)
          /\ shown' = IF Len(shown) < TickCap THEN Append(shown, frame) ELSE shown
          /\ watch_age' = Aged(frame)
    /\ order_pos' = order_pos
    /\ displays' = Min(displays + 1, TickCap)
    /\ since_display' = 0
    /\ SetPc(c, "sched")
    /\ UNCHANGED <<ART_FRAME_COUNT, u8, pair, watch, widget_state, top, order,
                   slideshow_work, timer, init_pc, prev_len, prev_last, ticks,
                   shuffles, rand_calls, rearm_failed>>

\* The cursor advanced before the read: anim_imgs[order[++order_pos]].
CbImgPreIncrement(c) ==
    /\ cb_pc[c] = "img"
    /\ \E frame \in ReadOrder((order_pos + 1) % UINT8_RANGE) :
          /\ art_box' = Append(art_box, frame)
          /\ shown' = IF Len(shown) < TickCap THEN Append(shown, frame) ELSE shown
          /\ watch_age' = Aged(frame)
    /\ order_pos' = (order_pos + 1) % UINT8_RANGE
    /\ displays' = Min(displays + 1, TickCap)
    /\ since_display' = 0
    /\ SetPc(c, "sched")
    /\ UNCHANGED <<ART_FRAME_COUNT, u8, pair, watch, widget_state, top, order,
                   slideshow_work, timer, init_pc, prev_len, prev_last, ticks,
                   shuffles, rand_calls, rearm_failed>>

\* img = lv_img_create(art_box); lv_img_set_src(img, anim_imgs[order[order_pos++]]);
CbImg(c) ==
    /\ cb_pc[c] = "img"
    /\ \E frame \in ReadOrder(order_pos) :
          /\ art_box' = Append(art_box, frame)
          /\ shown' = IF Len(shown) < TickCap THEN Append(shown, frame) ELSE shown
          /\ watch_age' = Aged(frame)
    /\ order_pos' = (order_pos + 1) % UINT8_RANGE
    /\ displays' = Min(displays + 1, TickCap)
    /\ since_display' = 0
    /\ SetPc(c, "sched")
    /\ UNCHANGED <<ART_FRAME_COUNT, u8, pair, watch, widget_state, top, order,
                   slideshow_work, timer, init_pc, prev_len, prev_last, ticks,
                   shuffles, rand_calls, rearm_failed>>

\* The handler returning without re-arming the work item.
CbReturnWithoutRearm(c) ==
    /\ cb_pc[c] = "sched"
    /\ SetPc(c, "none")
    /\ init_pc' = IF c = "init" THEN "sched" ELSE init_pc
    /\ UNCHANGED <<ART_FRAME_COUNT, u8, pair, watch, watch_age, widget_state,
                   top, order, order_pos, art_box, slideshow_work, timer,
                   shown, prev_len, prev_last, ticks, shuffles, displays,
                   since_display, rand_calls, rearm_failed>>

\* The handler re-arming with K_NO_WAIT instead of the rotation interval.
CbScheduleNoWait(c) ==
    /\ cb_pc[c] = "sched"
    /\ KWorkSchedule(0)
    /\ SetPc(c, "none")
    /\ init_pc' = IF c = "init" THEN "sched" ELSE init_pc
    /\ UNCHANGED <<ART_FRAME_COUNT, u8, pair, watch, watch_age, widget_state,
                   top, order, order_pos, art_box, shown, prev_len, prev_last,
                   ticks, shuffles, displays, since_display, rand_calls,
                   rearm_failed>>

\* k_work_schedule(&slideshow_work, K_MSEC(ART_ROTATE_INTERVAL)); and return.
CbSchedule(c) ==
    /\ cb_pc[c] = "sched"
    /\ KWorkSchedule(ART_ROTATE_INTERVAL)
    /\ SetPc(c, "none")
    /\ init_pc' = IF c = "init" THEN "sched" ELSE init_pc
    /\ UNCHANGED <<ART_FRAME_COUNT, u8, pair, watch, watch_age, widget_state,
                   top, order, order_pos, art_box, shown, prev_len, prev_last,
                   ticks, shuffles, displays, since_display, rand_calls,
                   rearm_failed>>

(* ----------------------- zmk_widget_status_init ----------------------- *)

\* widget->obj, the status canvas and art_box are created.
InitCreateWidgets ==
    /\ init_pc = "create"
    /\ art_box' = <<>>
    /\ init_pc' = "shuffle"
    /\ UNCHANGED <<ART_FRAME_COUNT, u8, pair, watch, watch_age, widget_state,
                   top, order, order_pos, slideshow_work, timer, cb_pc, shown,
                   prev_len, prev_last, ticks, shuffles, displays,
                   since_display, rand_calls, rearm_failed>>

\* shuffle_order();
InitShuffle ==
    /\ init_pc = "shuffle"
    /\ DoShuffle
    /\ init_pc' = "work_init"
    /\ UNCHANGED <<ART_FRAME_COUNT, u8, pair, watch, watch_age, widget_state,
                   top, art_box, slideshow_work, timer, cb_pc, ticks, displays,
                   since_display, rearm_failed>>

\* The work item initialised and scheduled at once, before the synchronous
\* call of the handler.
InitWorkInitScheduled ==
    /\ init_pc = "work_init"
    /\ slideshow_work' = "delayed"
    /\ timer' = ART_ROTATE_INTERVAL
    /\ init_pc' = "call_cb"
    /\ UNCHANGED <<ART_FRAME_COUNT, u8, pair, watch, watch_age, widget_state,
                   top, order, order_pos, art_box, cb_pc, shown, prev_len,
                   prev_last, ticks, shuffles, displays, since_display,
                   rand_calls, rearm_failed>>

\* k_work_init_delayable(&slideshow_work, slideshow_work_cb);
InitWorkInit ==
    /\ init_pc = "work_init"
    /\ slideshow_work' = "idle"
    /\ init_pc' = "call_cb"
    /\ UNCHANGED <<ART_FRAME_COUNT, u8, pair, watch, watch_age, widget_state,
                   top, order, order_pos, art_box, timer, cb_pc, shown,
                   prev_len, prev_last, ticks, shuffles, displays,
                   since_display, rand_calls, rearm_failed>>

\* slideshow_work_cb(NULL); the synchronous first tick is entered.
InitCallCb ==
    /\ init_pc = "call_cb"
    /\ init_pc' = "in_cb"
    /\ SetPc("init", "check")
    /\ ticks' = Min(ticks + 1, TickCap)
    /\ UNCHANGED <<ART_FRAME_COUNT, u8, pair, watch, watch_age, widget_state,
                   top, order, order_pos, art_box, slideshow_work, timer,
                   shown, prev_len, prev_last, shuffles, displays,
                   since_display, rand_calls, rearm_failed>>

\* k_work_schedule(&slideshow_work, K_MSEC(ART_ROTATE_INTERVAL)); then the
\* widget is appended to the list, the listeners are initialised and the
\* function returns 0.
InitSchedule ==
    /\ init_pc = "sched"
    /\ KWorkSchedule(ART_ROTATE_INTERVAL)
    /\ init_pc' = "done"
    /\ UNCHANGED <<ART_FRAME_COUNT, u8, pair, watch, watch_age, widget_state,
                   top, order, order_pos, art_box, cb_pc, shown, prev_len,
                   prev_last, ticks, shuffles, displays, since_display,
                   rand_calls, rearm_failed>>

(* ------------------------- time and the work queue -------------------- *)

\* One quantum of time passes.
Elapse ==
    /\ timer' = IF slideshow_work = "delayed" THEN Max(0, timer - Quantum)
                ELSE timer
    /\ since_display' = Min(ART_ROTATE_INTERVAL, since_display + Quantum)
    /\ UNCHANGED <<ART_FRAME_COUNT, u8, pair, watch, watch_age, widget_state,
                   top, order, order_pos, art_box, slideshow_work, init_pc,
                   cb_pc, shown, prev_len, prev_last, ticks, shuffles,
                   displays, rand_calls, rearm_failed>>

\* The timeout of the delayable work expires: the item is queued.
TimerExpire ==
    /\ slideshow_work = "delayed"
    /\ timer = 0
    /\ slideshow_work' = "queued"
    /\ UNCHANGED <<ART_FRAME_COUNT, u8, pair, watch, watch_age, widget_state,
                   top, order, order_pos, art_box, timer, init_pc, cb_pc,
                   shown, prev_len, prev_last, ticks, shuffles, displays,
                   since_display, rand_calls, rearm_failed>>

\* The work-queue thread takes the queued item and calls its handler.
WorkqueueRun ==
    /\ slideshow_work = "queued"
    /\ cb_pc["wq"] = "none"
    /\ slideshow_work' = "idle"
    /\ SetPc("wq", "check")
    /\ ticks' = Min(ticks + 1, TickCap)
    /\ UNCHANGED <<ART_FRAME_COUNT, u8, pair, watch, watch_age, widget_state,
                   top, order, order_pos, art_box, timer, init_pc, shown,
                   prev_len, prev_last, shuffles, displays, since_display,
                   rand_calls, rearm_failed>>

(* ------------------------------ status bar ---------------------------- *)

\* draw_top(widget->obj, widget->cbuf, &widget->state): the canvas is blanked,
\* then the battery and the connection symbol are drawn from the state.
DrawTop(st) == <<st.battery, st.charging, st.connected>>

\* A battery update that also empties the art container.
BatteryStatusUpdateCleansArt ==
    /\ init_pc = "done"
    /\ \E level \in BatteryLevels, usb_present \in BOOLEAN :
          LET st == [widget_state EXCEPT !.charging = usb_present,
                                         !.battery = level]
          IN  /\ widget_state' = st
              /\ top' = DrawTop(st)
    /\ art_box' = <<>>
    /\ UNCHANGED <<ART_FRAME_COUNT, u8, pair, watch, watch_age, order,
                   order_pos, slideshow_work, timer, init_pc, cb_pc, shown,
                   prev_len, prev_last, ticks, shuffles, displays,
                   since_display, rand_calls, rearm_failed>>

\* battery_status_update_cb(state): set_battery_status for the widget of the
\* list (built with CONFIG_USB_DEVICE_STACK, as the charging flag requires).
BatteryStatusUpdate ==
    /\ init_pc = "done"
    /\ \E level \in BatteryLevels, usb_present \in BOOLEAN :
          LET st == [widget_state EXCEPT !.charging = usb_present,
                                         !.battery = level]
          IN  /\ widget_state' = st
              /\ top' = DrawTop(st)
    /\ UNCHANGED <<ART_FRAME_COUNT, u8, pair, watch, watch_age, order,
                   order_pos, art_box, slideshow_work, timer, init_pc, cb_pc,
                   shown, prev_len, prev_last, ticks, shuffles, displays,
                   since_display, rand_calls, rearm_failed>>

\* output_status_update_cb(state): set_connection_status for the widget of
\* the list.
OutputStatusUpdate ==
    /\ init_pc = "done"
    /\ \E connected \in BOOLEAN :
          LET st == [widget_state EXCEPT !.connected = connected]
          IN  /\ widget_state' = st
              /\ top' = DrawTop(st)
    /\ UNCHANGED <<ART_FRAME_COUNT, u8, pair, watch, watch_age, order,
                   order_pos, art_box, slideshow_work, timer, init_pc, cb_pc,
                   shown, prev_len, prev_last, ticks, shuffles, displays,
                   since_display, rand_calls, rearm_failed>>

(* ------------------- k_work_schedule failing to queue ------------------ *)

\* A failed re-arm that is retried until it queues.
CbScheduleFailRetry(c) ==
    /\ cb_pc[c] = "sched"
    /\ slideshow_work \notin {"delayed", "queued"}
    /\ slideshow_work' = "delayed"
    /\ timer' = ART_ROTATE_INTERVAL
    /\ rearm_failed' = TRUE
    /\ SetPc(c, "none")
    /\ init_pc' = IF c = "init" THEN "sched" ELSE init_pc
    /\ UNCHANGED <<ART_FRAME_COUNT, u8, pair, watch, watch_age, widget_state,
                   top, order, order_pos, art_box, shown, prev_len, prev_last,
                   ticks, shuffles, displays, since_display, rand_calls>>

\* k_work_schedule(...) at the end of the handler returns an error without
\* queuing; the handler ignores the return value and returns.
CbScheduleFail(c) ==
    /\ cb_pc[c] = "sched"
    /\ slideshow_work \notin {"delayed", "queued"}
    /\ rearm_failed' = TRUE
    /\ SetPc(c, "none")
    /\ init_pc' = IF c = "init" THEN "sched" ELSE init_pc
    /\ UNCHANGED <<ART_FRAME_COUNT, u8, pair, watch, watch_age, widget_state,
                   top, order, order_pos, art_box, slideshow_work, timer,
                   shown, prev_len, prev_last, ticks, shuffles, displays,
                   since_display, rand_calls>>

\* k_work_schedule(...) of zmk_widget_status_init returns an error without
\* queuing; the return value is ignored and initialisation goes on.
InitScheduleFail ==
    /\ init_pc = "sched"
    /\ slideshow_work \notin {"delayed", "queued"}
    /\ init_pc' = "done"
    /\ UNCHANGED <<ART_FRAME_COUNT, u8, pair, watch, watch_age, widget_state,
                   top, order, order_pos, art_box, slideshow_work, timer,
                   cb_pc, shown, prev_len, prev_last, ticks, shuffles,
                   displays, since_display, rand_calls, rearm_failed>>

(* ------------- the two timer variants, handler by handler -------------- *)

\* The sequencer statics of one variant before zmk_widget_status_init, with
\* the frames it has displayed (a history) and whether its timer is armed.
Unstarted ==
    [order |-> [i \in 0 .. (ART_FRAME_COUNT - 1) |-> 0], order_pos |-> 0,
     art_box |-> <<>>, frames |-> <<>>, armed |-> FALSE]

\* order[order_pos] of a variant: a read past the array yields an arbitrary
\* byte, here any value up to ART_FRAME_COUNT.
SeqRead(st) ==
    IF st.order_pos \in DOMAIN st.order THEN {st.order[st.order_pos]}
    ELSE 0 .. ART_FRAME_COUNT

\* lv_obj_clean(art_box); lv_img_create(art_box); lv_img_set_src(img,
\* anim_imgs[order[order_pos++]]): the states a variant can be left in.
ShowNext(st) ==
    {[st EXCEPT !.art_box = Append(<<>>, f),
                !.frames = Append(@, f),
                !.order_pos = (@ + 1) % UINT8_RANGE] : f \in SeqRead(st)}

\* slideshow_work_cb as a whole, the reshuffle drawing the words draws; its
\* last statement re-arms the work item.
SlideshowWorkCb(st, draws) ==
    LET s1 == IF st.order_pos >= ART_FRAME_COUNT
              THEN [st EXCEPT !.order = ShuffleOrder(@, ART_FRAME_COUNT, draws),
                              !.order_pos = 0]
              ELSE st
    IN  {[s EXCEPT !.armed = TRUE] : s \in ShowNext(s1)}

\* shuffle_order(); k_work_init_delayable(...); slideshow_work_cb(NULL);
\* k_work_schedule(...): the sequencer part of zmk_widget_status_init.
WorkStart(st, first, second) ==
    LET s0 == [st EXCEPT !.order = ShuffleOrder(@, ART_FRAME_COUNT, first),
                         !.order_pos = 0, !.armed = FALSE]
    IN  {[s EXCEPT !.armed = TRUE] : s \in SlideshowWorkCb(s0, second)}

\* shuffle_order() of the LVGL-timer variant: the identity fill.
RECURSIVE LvFill(_, _, _)
LvFill(ord, i, n) ==
    IF i < n THEN LvFill([ord EXCEPT ![i] = i], (i + 1) % UINT8_RANGE, n)
    ELSE ord

\* shuffle_order() of the LVGL-timer variant: the swap loop.
RECURSIVE LvSwaps(_, _, _, _)
LvSwaps(ord, i, draws, k) ==
    IF i > 0
    THEN LET j == draws[k] % (i + 1)
         IN  LvSwaps([ord EXCEPT ![i] = ord[j], ![j] = ord[i]], i - 1, draws, k + 1)
    ELSE ord

\* shuffle_order() of the LVGL-timer variant.
LvShuffleOrder(ord, n, draws) == LvSwaps(LvFill(ord, 0, n), n - 1, draws, 1)

\* A callback that reshuffles only once order_pos has passed N.
SlideshowCbLate(st, draws) ==
    LET s1 == IF st.order_pos > ART_FRAME_COUNT
              THEN [st EXCEPT !.order = LvShuffleOrder(@, ART_FRAME_COUNT, draws),
                              !.order_pos = 0]
              ELSE st
    IN  ShowNext(s1)

\* slideshow_cb of the LVGL-timer variant as a whole: no re-arm, the
\* lv_timer is periodic.
SlideshowCb(st, draws) ==
    LET s1 == IF st.order_pos >= ART_FRAME_COUNT
              THEN [st EXCEPT !.order = LvShuffleOrder(@, ART_FRAME_COUNT, draws),
                              !.order_pos = 0]
              ELSE st
    IN  ShowNext(s1)

\* shuffle_order(); slideshow_cb(NULL); lv_timer_create(slideshow_cb,
\* ART_ROTATE_INTERVAL, NULL): the sequencer part of the LVGL-timer variant's
\* zmk_widget_status_init.
LvStart(st, first, second) ==
    LET s0 == [st EXCEPT !.order = LvShuffleOrder(@, ART_FRAME_COUNT, first),
                         !.order_pos = 0]
    IN  {[s EXCEPT !.armed = TRUE] : s \in SlideshowCb(s0, second)}

\* Both variants are started, fed the same random words.
PairStart ==
    /\ ~pair.started
    /\ \E first \in RandSeqs(ART_FRAME_COUNT), second \in RandSeqs(ART_FRAME_COUNT) :
          \E w \in WorkStart(pair.wk, first, second),
             l \in LvStart(pair.lv, first, second) :
             pair' = [started |-> TRUE, wk |-> w, lv |-> l]
    /\ UNCHANGED <<ART_FRAME_COUNT, u8, order, order_pos, art_box,
                   slideshow_work, timer, init_pc, cb_pc, shown, prev_len,
                   prev_last, ticks, shuffles, displays, since_display,
                   rand_calls, rearm_failed, widget_state, top, watch,
                   watch_age>>

\* The timer of each variant fires once: the work queue takes the work item
\* and runs slideshow_work_cb, the LVGL timer handler runs slideshow_cb; both
\* are fed the same random words.
PairFire ==
    /\ pair.started
    /\ pair.wk.armed
    /\ pair.lv.armed
    /\ Len(pair.wk.frames) < PairTicks
    /\ \E draws \in RandSeqs(ART_FRAME_COUNT) :
          \E w \in SlideshowWorkCb([pair.wk EXCEPT !.armed = FALSE], draws),
             l \in SlideshowCb(pair.lv, draws) :
             pair' = [pair EXCEPT !.wk = w, !.lv = l]
    /\ UNCHANGED <<ART_FRAME_COUNT, u8, order, order_pos, art_box,
                   slideshow_work, timer, init_pc, cb_pc, shown, prev_len,
                   prev_last, ticks, shuffles, displays, since_display,
                   rand_calls, rearm_failed, widget_state, top, watch,
                   watch_age>>

(* ------------- the 8-bit counters, for catalogs up to 255 -------------- *)

\* The catalog sizes an 8-bit index is claimed to serve.
CatalogSizes8 == 1 .. (UINT8_RANGE - 1)

\* A value stored in a 7-bit field.
Uint7(x) == x % (UINT8_RANGE \div 2)

\* A value stored in a uint8_t.
Uint8(x) == x % UINT8_RANGE

\* The counters while this part of the model is not run.
U8Off ==
    [n |-> 0, pc |-> "off", ret |-> "check", i |-> 0, entry |-> 0,
     order_pos |-> 0, cycles |-> 0, wrapped |-> FALSE]

\* zmk_widget_status_init is about to call shuffle_order() for a catalog of
\* n frames; slideshow_work_cb(NULL) follows.
U8Start(n) == [U8Off EXCEPT !.n = n, !.pc = "fill"]

\* for (uint8_t i = 0; i < ART_FRAME_COUNT; i++) order[i] = i; one iteration.
\* entry is the uint8_t stored in order[i].
U8Fill ==
    /\ u8.pc = "fill"
    /\ u8.i < u8.n
    /\ u8' = [u8 EXCEPT !.entry = Uint8(u8.i),
                        !.i = Uint8(u8.i + 1),
                        !.wrapped = \/ u8.wrapped
                                    \/ Uint8(u8.i) # u8.i
                                    \/ Uint8(u8.i + 1) # u8.i + 1]
    /\ UNCHANGED <<ART_FRAME_COUNT, order, order_pos, art_box, slideshow_work,
                   timer, init_pc, cb_pc, shown, prev_len, prev_last, ticks,
                   shuffles, displays, since_display, rand_calls, rearm_failed,
                   widget_state, top, watch, watch_age, pair>>

\* The test i < ART_FRAME_COUNT fails: the fill loop is left.
U8FillExit ==
    /\ u8.pc = "fill"
    /\ ~(u8.i < u8.n)
    /\ u8' = [u8 EXCEPT !.pc = "swap"]
    /\ UNCHANGED <<ART_FRAME_COUNT, order, order_pos, art_box, slideshow_work,
                   timer, init_pc, cb_pc, shown, prev_len, prev_last, ticks,
                   shuffles, displays, since_display, rand_calls, rearm_failed,
                   widget_state, top, watch, watch_age, pair>>

\* The swap loop (its counter is an int, its swaps move entries unchanged),
\* order_pos = 0, and the return to the caller.
U8Swaps ==
    /\ u8.pc = "swap"
    /\ u8' = [u8 EXCEPT !.pc = u8.ret, !.order_pos = 0,
                        !.cycles = Min(u8.cycles + 1, 2)]
    /\ UNCHANGED <<ART_FRAME_COUNT, order, order_pos, art_box, slideshow_work,
                   timer, init_pc, cb_pc, shown, prev_len, prev_last, ticks,
                   shuffles, displays, since_display, rand_calls, rearm_failed,
                   widget_state, top, watch, watch_age, pair>>

\* if (order_pos >= ART_FRAME_COUNT) shuffle_order();
U8Check ==
    /\ u8.pc = "check"
    /\ u8' = IF u8.order_pos >= u8.n
             THEN [u8 EXCEPT !.pc = "fill", !.ret = "show", !.i = 0]
             ELSE [u8 EXCEPT !.pc = "show"]
    /\ UNCHANGED <<ART_FRAME_COUNT, order, order_pos, art_box, slideshow_work,
                   timer, init_pc, cb_pc, shown, prev_len, prev_last, ticks,
                   shuffles, displays, since_display, rand_calls, rearm_failed,
                   widget_state, top, watch, watch_age, pair>>

\* anim_imgs[order[order_pos++]], the re-arm and the return of the handler.
U8Show ==
    /\ u8.pc = "show"
    /\ u8' = [u8 EXCEPT !.pc = "wait",
                        !.order_pos = Uint8(u8.order_pos + 1),
                        !.wrapped = \/ u8.wrapped
                                    \/ Uint8(u8.order_pos + 1) # u8.order_pos + 1]
    /\ UNCHANGED <<ART_FRAME_COUNT, order, order_pos, art_box, slideshow_work,
                   timer, init_pc, cb_pc, shown, prev_len, prev_last, ticks,
                   shuffles, displays, since_display, rand_calls, rearm_failed,
                   widget_state, top, watch, watch_age, pair>>

\* The timeout runs out and the work queue calls the handler.
U8Fire ==
    /\ u8.pc = "wait"
    /\ u8' = [u8 EXCEPT !.pc = "check"]
    /\ UNCHANGED <<ART_FRAME_COUNT, order, order_pos, art_box, slideshow_work,
                   timer, init_pc, cb_pc, shown, prev_len, prev_last, ticks,
                   shuffles, displays, since_display, rand_calls, rearm_failed,
                   widget_state, top, watch, watch_age, pair>>

(* --------------------------- specification ---------------------------- *)

\* The state before zmk_widget_status_init, for a catalog of at most maxn
\* frames: the statics are zero-initialised.
InitCatalog(maxn) ==
    /\ ART_FRAME_COUNT \in 1 .. maxn
    /\ order = [i \in 0 .. (ART_FRAME_COUNT - 1) |-> 0]
    /\ order_pos = 0
    /\ art_box = <<>>
    /\ slideshow_work = "uninit"
    /\ timer = 0
    /\ init_pc = "create"
    /\ cb_pc = [c \in Contexts |-> "none"]
    /\ shown = <<>>
    /\ prev_len = 0
    /\ prev_last = -1
    /\ ticks = 0
    /\ shuffles = 0
    /\ displays = 0
    /\ since_display = 0
    /\ rand_calls = 0
    /\ rearm_failed = FALSE
    /\ widget_state = [battery |-> 0, charging |-> FALSE, connected |-> FALSE]
    /\ top = <<>>
    /\ watch_age = 0
    /\ pair = [started |-> FALSE, wk |-> Unstarted, lv |-> Unstarted]

Init == InitCatalog(MaxN) /\ watch = -1 /\ u8 = U8Off

CbStep(c) ==
    \/ CbCheck(c)
    \/ CbShuffle(c)
    \/ CbClean(c)
    \/ CbImg(c)
    \/ CbSchedule(c)

InitStep ==
    \/ InitCreateWidgets
    \/ InitShuffle
    \/ InitWorkInit
    \/ InitCallCb
    \/ InitSchedule

Next ==
    \/ InitStep
    \/ \E c \in Contexts : CbStep(c)
    \/ Elapse
    \/ TimerExpire
    \/ WorkqueueRun

Spec == Init /\ [][Next]_vars

\* The statements of the thread that runs zmk_widget_status_init.
InitThread == InitStep \/ CbStep("init")

\* The statements of the work-queue thread.
WorkqueueThread == WorkqueueRun \/ CbStep("wq")

\* The scheduling the platform provides: each thread executes its next
\* statement, time passes, and an expired timeout queues its work item.
Fairness ==
    /\ WF_vars(InitThread)
    /\ WF_vars(WorkqueueThread)
    /\ WF_vars(Elapse)
    /\ WF_vars(TimerExpire)

LiveSpec == Init /\ [][Next]_vars /\ Fairness

\* The same program on a platform whose k_work_schedule may fail.
NextFail ==
    \/ Next
    \/ \E c \in Contexts : CbScheduleFail(c)
    \/ InitScheduleFail

SpecFail == Init /\ [][NextFail]_vars

\* The program together with the battery and connection events the
\* listeners deliver once zmk_widget_status_init has registered the widget.
NextStatus ==
    \/ Next
    \/ BatteryStatusUpdate
    \/ OutputStatusUpdate

SpecStatus ==
    InitCatalog(MaxNStatus) /\ watch = -1 /\ u8 = U8Off /\ [][NextStatus]_vars

\* The program with one catalog index under observation, under the
\* scheduling the platform provides.
InitWatch ==
    /\ InitCatalog(MaxNWatch)
    /\ watch \in 0 .. (ART_FRAME_COUNT - 1)
    /\ u8 = U8Off

LiveSpecWatch == InitWatch /\ [][Next]_vars /\ Fairness

\* The 8-bit counters of the sequencer for every catalog size of
\* CatalogSizes8, each statement executed in its turn.
InitU8 ==
    /\ InitCatalog(1)
    /\ watch = -1
    /\ u8 \in {U8Start(n) : n \in CatalogSizes8}

NextU8 ==
    \/ U8Fill
    \/ U8FillExit
    \/ U8Swaps
    \/ U8Check
    \/ U8Show
    \/ U8Fire

LiveSpecU8 == InitU8 /\ [][NextU8]_vars /\ WF_vars(NextU8)

\* The delayed-work variant and the LVGL-timer variant side by side.
NextPair ==
    \/ PairStart
    \/ PairFire

SpecPair == Init /\ [][NextPair]_vars

(* ------------------------------ properties ---------------------------- *)

Range(seq) == {seq[k] : k \in 1 .. Len(seq)}

NoRepeat(seq) ==
    \A a, b \in 1 .. Len(seq) : a # b => seq[a] # seq[b]

CatalogIndices == 0 .. (ART_FRAME_COUNT - 1)

IsPermutation(ord) ==
    /\ DOMAIN ord = CatalogIndices
    /\ {ord[i] : i \in DOMAIN ord} = CatalogIndices
    /\ \A a, b \in DOMAIN ord : a # b => ord[a] # ord[b]

\* No context is inside slideshow_work_cb.
NoTickRunning == \A c \in Contexts : cb_pc[c] = "none"

\* A step in which a call of shuffle_order returns to its caller.
ShuffleReturns ==
    \/ init_pc = "shuffle" /\ init_pc' = "work_init"
    \/ \E c \in Contexts : cb_pc[c] = "shuffle" /\ cb_pc'[c] = "clean"

\* C1: for every N >= 2, the frames displayed since the last shuffle_order are
\* catalog indices without a repeat, at most N of them, and a reshuffle only
\* ever ends a run of exactly N displays: the N ticks after a (re)shuffle
\* display each of 0..N-1 exactly once.
C1_NoRepeatUntilFullCycle ==
    ART_FRAME_COUNT >= 2 =>
        /\ NoRepeat(shown)
        /\ Range(shown) \subseteq CatalogIndices
        /\ Len(shown) <= ART_FRAME_COUNT
        /\ (Len(shown) = ART_FRAME_COUNT => Range(shown) = CatalogIndices)
        /\ (shuffles >= 2 => prev_len = ART_FRAME_COUNT)

\* A full cycle of N >= 2 frames has been displayed after a reshuffle.
C1_Witness ==
    /\ ART_FRAME_COUNT >= 2
    /\ shuffles >= 2
    /\ Len(shown) = ART_FRAME_COUNT
    /\ NoTickRunning

\* C2: for every N >= 1 and every sequence of random words, the step in which
\* shuffle_order returns leaves order a permutation of 0..N-1 and order_pos 0.
C2_ShuffleYieldsPermutation ==
    [][ShuffleReturns => (IsPermutation(order') /\ order_pos' = 0)]_vars

\* A reshuffle inside a tick has just returned a non-identity permutation.
C2_Witness ==
    /\ shuffles >= 2
    /\ cb_pc["wq"] = "clean"
    /\ order_pos = 0
    /\ IsPermutation(order)
    /\ order[0] # 0

\* The work item is armed: its timeout is running or it is queued.
Armed == slideshow_work \in {"delayed", "queued"}

\* C3: there is no terminal state. Whenever start() has returned and no tick
\* is running, a future tick is armed; and under fair scheduling the work
\* queue enters the tick callback again and again, forever.
C3_TicksForever ==
    /\ []((init_pc = "done" /\ NoTickRunning) => Armed)
    /\ []<>(cb_pc["wq"] = "check")

\* Well past the first cycle the slideshow is idle with its next tick armed.
C3_Witness ==
    /\ init_pc = "done"
    /\ NoTickRunning
    /\ ticks >= ART_FRAME_COUNT + 2
    /\ shuffles >= 2
    /\ slideshow_work = "delayed"

\* C4: the first display is made by start() itself, inside its synchronous
\* call of the callback and before the work item was ever armed; when start()
\* leaves that call exactly one display has been made; and the second display
\* is made no earlier than one rotation interval after the first.
C4_FirstDisplayImmediateSecondAfterInterval ==
    [][ /\ (displays = 0 /\ displays' = 1) =>
              (cb_pc["init"] = "img" /\ slideshow_work = "idle" /\ ticks = 1)
        /\ (init_pc = "in_cb" /\ init_pc' = "sched") => displays' = 1
        /\ (displays = 1 /\ displays' = 2) =>
              (cb_pc["wq"] = "img" /\ since_display >= ART_ROTATE_INTERVAL)
      ]_vars

\* The second display has just been made, by the work queue.
C4_Witness ==
    /\ displays = 2
    /\ cb_pc["wq"] = "sched"
    /\ since_display = 0

\* Context c is inside shuffle_order or slideshow_work_cb.
Inside(c) ==
    IF c = "init" THEN init_pc \in {"shuffle", "in_cb"}
    ELSE cb_pc[c] # "none"

C6_ReshuffleAtTickNPlusOne ==
    /\ (ticks >= 1 /\ ticks <= ART_FRAME_COUNT) => shuffles = 1
    /\ (ticks = ART_FRAME_COUNT + 1 /\ cb_pc["wq"] \in {"check", "shuffle"})
           => shuffles = 1
    /\ (ticks = ART_FRAME_COUNT + 1 /\ cb_pc["wq"] \in {"clean", "img", "sched", "none"})
           => shuffles = 2
    /\ (ticks = ART_FRAME_COUNT + 1 /\ NoTickRunning) => order_pos = 1

\* Tick N+1 has returned (N >= 2).
C6_Witness ==
    /\ ART_FRAME_COUNT >= 2
    /\ ticks = ART_FRAME_COUNT + 1
    /\ NoTickRunning
    /\ shuffles = 2
    /\ order_pos = 1

\* The first frame of the current cycle repeats the last frame of the
\* previous one.
BoundaryRepeat ==
    /\ shuffles >= 2
    /\ Len(shown) >= 1
    /\ shown[1] = prev_last

\* C7: an immediate repeat across a reshuffle boundary is possible (the
\* witness), and where it happens the cycles on both sides are still whole:
\* the previous cycle displayed N frames, and the current one displays
\* catalog indices without a repeat, all N of them once it is complete.
C7_BoundaryRepeatKeepsCyclesWhole ==
    (ART_FRAME_COUNT >= 2 /\ BoundaryRepeat) =>
        /\ prev_len = ART_FRAME_COUNT
        /\ prev_last \in CatalogIndices
        /\ NoRepeat(shown)
        /\ Range(shown) \subseteq {order[i] : i \in DOMAIN order}
        /\ (order_pos = ART_FRAME_COUNT => Range(shown) = CatalogIndices)

\* A cycle that began by repeating the previous cycle's last frame has run
\* to its end.
C7_Witness ==
    /\ ART_FRAME_COUNT >= 2
    /\ BoundaryRepeat
    /\ Len(shown) = ART_FRAME_COUNT
    /\ NoTickRunning

\* C8: with a catalog of one frame every tick displays index 0, the reshuffle
\* draws no random word (so takes no modulus, and none is ever 0), and a
\* context inside the callback always has a next step to take.
C8_SingleFrameCatalog ==
    /\ 0 \notin Moduli(ART_FRAME_COUNT - 1)
    /\ (ART_FRAME_COUNT = 1 /\ shuffles >= 1) =>
          /\ rand_calls = 0
          /\ Moduli(ART_FRAME_COUNT - 1) = {}
    /\ ART_FRAME_COUNT = 1 =>
          /\ Range(art_box) \subseteq {0}
          /\ Range(shown) \subseteq {0}
          /\ order[0] = 0
          /\ order_pos <= 1
          /\ \A c \in Contexts : cb_pc[c] # "none" => ENABLED CbStep(c)

\* With one frame, a later tick has reshuffled and displayed frame 0 again.
C8_Witness ==
    /\ ART_FRAME_COUNT = 1
    /\ shuffles >= 3
    /\ ticks >= 3
    /\ art_box = <<0>>
    /\ NoTickRunning

\* The permutations of 0..N-1, as arrays.
OrderPermutations ==
    {f \in [CatalogIndices -> CatalogIndices] : IsPermutation(f)}

\* The number of outcomes of the random source for which shuffle_order
\* leaves the array p.
Outcomes(p) ==
    Cardinality({d \in RandSeqs(ART_FRAME_COUNT) :
                    ShuffleOrder(order, ART_FRAME_COUNT, d) = p})

\* C9: where shuffle_order is about to run, every permutation of 0..N-1 is
\* produced by some outcome of the random source, and all permutations by
\* the same number of outcomes.
C9_ShuffleUniform ==
    (init_pc = "shuffle" \/ \E c \in Contexts : cb_pc[c] = "shuffle") =>
        \A p, q \in OrderPermutations :
            Outcomes(p) >= 1 /\ Outcomes(p) = Outcomes(q)

\* Every permutation is produced, and nothing but permutations.
C9_EveryPermutationProduced ==
    (init_pc = "shuffle" \/ \E c \in Contexts : cb_pc[c] = "shuffle") =>
        {ShuffleOrder(order, ART_FRAME_COUNT, d) : d \in RandSeqs(ART_FRAME_COUNT)}
            = OrderPermutations

\* The slideshow has stopped after a failed re-arm: start() has returned, no
\* tick is running and the work item is neither delayed nor queued.
Stopped ==
    /\ rearm_failed
    /\ init_pc = "done"
    /\ NoTickRunning
    /\ slideshow_work = "idle"

\* C10 as stated: once the re-arm at the end of a tick has failed, no further
\* tick occurs.
C10_NoTickAfterFailedRearm ==
    [][rearm_failed => ticks' = ticks]_vars

\* C10, amended: a re-arm that fails once start()'s own k_work_schedule is
\* no longer to come leaves the slideshow stopped; and a stopped slideshow
\* stays stopped: no tick, no display, no shuffle, no retry; the art box
\* keeps the one image of the last displayed frame and order, order_pos stay
\* as the last tick set them.
C10_FailedRearmStopsSlideshow ==
    [][ /\ (~rearm_failed /\ rearm_failed' /\ init_pc' = "done") => Stopped'
        /\ \A c \in Contexts :
              (cb_pc[c] = "sched" /\ cb_pc'[c] = "none" /\ ~Armed'
                  /\ init_pc' = "done") => Stopped'
        /\ (rearm_failed /\ init_pc = "sched" /\ init_pc' = "done" /\ ~Armed')
               => Stopped'
        /\ Stopped =>
              /\ Stopped'
              /\ art_box = <<shown[Len(shown)]>>
              /\ UNCHANGED <<order, order_pos, art_box, slideshow_work, timer,
                             ticks, shuffles, displays, shown>>
      ]_vars

\* A re-arm of a tick run by the work queue failed and the slideshow is
\* frozen on the frame of that tick.
C10_Witness ==
    /\ Stopped
    /\ ticks >= 2
    /\ art_box = <<shown[Len(shown)]>>
    /\ since_display >= ART_ROTATE_INTERVAL


\* The moves of a context inside slideshow_work_cb, in program order.
TickMoves ==
    {<<"none", "check">>, <<"check", "shuffle">>, <<"check", "clean">>,
     <<"shuffle", "clean">>, <<"clean", "img">>, <<"img", "sched">>,
     <<"sched", "none">>}

\* C12: within every tick the steps occur in the order conditional reshuffle
\* (taken exactly when order_pos >= N), clear of the previous frame, display
\* of the frame at order[order_pos], advance of the cursor, re-arm; and every
\* re-arm leaves the item pending, a timeout it starts being the one fixed
\* ART_ROTATE_INTERVAL.
C12_TickStepOrder ==
    [][\A c \in Contexts :
          cb_pc[c] # cb_pc'[c] =>
             /\ <<cb_pc[c], cb_pc'[c]>> \in TickMoves
             /\ cb_pc[c] = "check" =>
                   /\ (cb_pc'[c] = "shuffle") = (order_pos >= ART_FRAME_COUNT)
                   /\ UNCHANGED <<order, order_pos, art_box, slideshow_work,
                                  timer>>
             /\ cb_pc[c] = "shuffle" =>
                   /\ order_pos' = 0
                   /\ UNCHANGED <<art_box, slideshow_work, timer>>
             /\ cb_pc[c] = "clean" =>
                   /\ art_box' = <<>>
                   /\ UNCHANGED <<order, order_pos, slideshow_work, timer>>
             /\ cb_pc[c] = "img" =>
                   /\ art_box' = <<order[order_pos]>>
                   /\ order_pos' = order_pos + 1
                   /\ UNCHANGED <<order, slideshow_work, timer>>
             /\ cb_pc[c] = "sched" =>
                   /\ slideshow_work' \in {"delayed", "queued"}
                   /\ slideshow_work = "idle" =>
                         /\ slideshow_work' = "delayed"
                         /\ timer' = ART_ROTATE_INTERVAL
                   /\ timer' # timer => timer' = ART_ROTATE_INTERVAL
                   /\ UNCHANGED <<order, order_pos, art_box>>]_vars

\* A tick that took the reshuffle branch has run all its steps and re-armed.
C12_Witness ==
    /\ cb_pc["wq"] = "none"
    /\ shuffles = 2
    /\ shown # <<>>
    /\ art_box = <<order[0]>>
    /\ slideshow_work = "delayed"
    /\ timer = ART_ROTATE_INTERVAL

\* The sequencer waits for its next tick: zmk_widget_status_init has
\* returned, no handler is running and the work item's timeout is running.
IdleArmed ==
    /\ init_pc = "done"
    /\ NoTickRunning
    /\ slideshow_work = "delayed"

\* C13 as stated: order_pos is in 0..N, and order_pos = N in no state in
\* which the sequencer is idle waiting for the next tick.
C13_CursorNeverRestsAtN ==
    /\ order_pos \in 0 .. ART_FRAME_COUNT
    /\ IdleArmed => order_pos # ART_FRAME_COUNT

\* C13: order_pos is in 0..N; no frame is cleared or read at order_pos = N,
\* since a tick that finds order_pos = N reshuffles first; and while the
\* sequencer is idle waiting for the next tick order_pos is in 1..N, the
\* value N included.
C13_CursorInRangeAndBelowNAtRead ==
    /\ order_pos \in 0 .. ART_FRAME_COUNT
    /\ \A c \in Contexts :
          cb_pc[c] \in {"clean", "img"} => order_pos < ART_FRAME_COUNT
    /\ IdleArmed => order_pos \in 1 .. ART_FRAME_COUNT

\* The sequencer has been idle for a whole rotation interval with the cursor
\* at N, the catalog holding more than one frame.
C13_Witness ==
    /\ IdleArmed
    /\ ART_FRAME_COUNT > 1
    /\ order_pos = ART_FRAME_COUNT
    /\ timer = 0
    /\ since_display = ART_ROTATE_INTERVAL

\* C14: once shuffle_order has run, in every state order is a permutation of
\* 0..N-1 and order[0], ..., order[order_pos - 1] are exactly the indices
\* displayed since the last reshuffle, in the order of their display.
C14_PrefixIsShownSet ==
    shuffles >= 1 =>
       /\ IsPermutation(order)
       /\ order_pos \in 0 .. ART_FRAME_COUNT
       /\ Len(shown) = order_pos
       /\ {order[i] : i \in 0 .. (order_pos - 1)} = Range(shown)
       /\ \A i \in 0 .. (order_pos - 1) : shown[i + 1] = order[i]

\* In the second cycle of a catalog of three, two frames have been shown.
C14_Witness ==
    /\ ART_FRAME_COUNT = 3
    /\ shuffles = 2
    /\ order_pos = 2
    /\ Range(shown) = {order[0], order[1]}
    /\ NoTickRunning

\* C16: at most one invocation of the handler is pending at any time.  The
\* k_work_schedule call of zmk_widget_status_init that follows the
\* synchronous first tick finds the item armed by that tick and changes
\* neither the item nor its timeout; the item is armed only when nothing is
\* pending, always for ART_ROTATE_INTERVAL; a running timeout is never
\* postponed; the item is queued only by its timeout running out, and each
\* invocation by the work queue consumes the one pending submission.
C16_SinglePendingTick ==
    [][ /\ (init_pc = "sched" /\ init_pc' = "done") =>
              /\ Armed'
              /\ Armed => UNCHANGED <<slideshow_work, timer>>
        /\ (slideshow_work # "delayed" /\ slideshow_work' = "delayed") =>
              /\ slideshow_work = "idle"
              /\ timer' = ART_ROTATE_INTERVAL
        /\ (slideshow_work = "delayed" /\ slideshow_work' = "delayed") =>
              timer' <= timer
        /\ (slideshow_work # "queued" /\ slideshow_work' = "queued") =>
              /\ slideshow_work = "delayed"
              /\ timer = 0
        /\ (cb_pc["wq"] = "none" /\ cb_pc'["wq"] = "check") =>
              /\ slideshow_work = "queued"
              /\ slideshow_work' = "idle"
      ]_vars

\* zmk_widget_status_init has made its own k_work_schedule call half an
\* interval after the first tick armed the item, and the timeout still has
\* only the other half to run.
C16_Witness ==
    /\ init_pc = "done"
    /\ ticks = 1
    /\ displays = 1
    /\ since_display = Quantum
    /\ slideshow_work = "delayed"
    /\ timer = ART_ROTATE_INTERVAL - Quantum

\* shuffle_order is the next statement of some context.
ShuffleIsNext ==
    \/ init_pc = "shuffle"
    \/ \E c \in Contexts : cb_pc[c] = "shuffle"

\* C17: every array access of the sequencer is in bounds.  Whatever words a
\* shuffle_order about to run draws, each swap <<i, j>> has 0 <= j <= i <= N-1;
\* the tick reads order only at an order_pos in 0..N-1; and every value handed
\* to the renderer as an index into anim_imgs is in 0..N-1.
C17_AccessesInBounds ==
    /\ ShuffleIsNext =>
          \A draws \in RandSeqs(ART_FRAME_COUNT) :
             \A a \in ShuffleAccesses(ART_FRAME_COUNT - 1, draws, 1) :
                0 <= a[2] /\ a[2] <= a[1] /\ a[1] <= ART_FRAME_COUNT - 1
    /\ \A c \in Contexts :
          cb_pc[c] = "img" => order_pos \in 0 .. (ART_FRAME_COUNT - 1)
    /\ \A k \in 1 .. Len(art_box) : art_box[k] \in CatalogIndices
    /\ Range(shown) \subseteq CatalogIndices

\* A reshuffle of a three-frame catalog is about to draw its words while the
\* last frame of the finished cycle is on display.
C17_Witness ==
    /\ ART_FRAME_COUNT = 3
    /\ cb_pc["wq"] = "shuffle"
    /\ order_pos = ART_FRAME_COUNT
    /\ art_box = <<order[ART_FRAME_COUNT - 1]>>
    /\ ShuffleAccesses(2, <<3, 1>>, 1) = {<<2, 0>>, <<1, 1>>}

\* C20: the art container never holds more than one image, and whenever no
\* handler is running after the first display it holds exactly one: the image
\* of the most recent tick.
C20_OneImageInArtBox ==
    /\ Len(art_box) <= 1
    /\ (displays >= 1 /\ NoTickRunning) =>
          /\ Len(art_box) = 1
          /\ shown # <<>> => art_box = <<shown[Len(shown)]>>
    /\ \A c \in Contexts : cb_pc[c] = "sched" => Len(art_box) = 1

\* After N + 2 ticks the art container still holds the one image of the last.
C20_Witness ==
    /\ ticks = ART_FRAME_COUNT + 2
    /\ displays = ART_FRAME_COUNT + 2
    /\ NoTickRunning
    /\ Len(art_box) = 1

\* A step of a tick: a context enters, moves inside or leaves slideshow_work_cb.
TickStep == \E c \in Contexts : cb_pc'[c] # cb_pc[c]

\* C11: a step of a tick leaves the status bar as it is: the battery level,
\* the charging flag, the connected flag and the status canvas are unchanged,
\* whatever the listeners have drawn there before.
C11_TickKeepsStatusBar ==
    [][TickStep => UNCHANGED <<widget_state, top>>]_vars

\* A tick run by the work queue has displayed its frame below a status bar
\* that shows a full battery on a connected half.
C11_Witness ==
    /\ cb_pc["wq"] = "sched"
    /\ ticks >= 2
    /\ Len(art_box) = 1
    /\ top = <<100, FALSE, TRUE>>
    /\ widget_state.connected

\* A step of a status-bar update callback.
StatusStep == init_pc = "done" /\ <<widget_state, top>>' # <<widget_state, top>>

\* C15: the battery-status and connection-status update callbacks, in any
\* interleaving with ticks, leave order, order_pos, the displayed frame, the
\* pending schedule and the position of every running tick unchanged.
C15_StatusUpdatesKeepSequencer ==
    [][StatusStep =>
          UNCHANGED <<order, order_pos, art_box, slideshow_work, timer, cb_pc,
                      ART_FRAME_COUNT>>]_vars

\* The status bar was redrawn while a tick of the second cycle was between
\* clearing the art container and creating its image.
C15_Witness ==
    /\ cb_pc["wq"] = "img"
    /\ art_box = <<>>
    /\ shuffles = 2
    /\ top = <<0, TRUE, TRUE>>
    /\ slideshow_work = "idle"

\* The observed index has just been handed to the renderer.
WatchDisplayed ==
    /\ \E c \in Contexts : cb_pc[c] = "sched"
    /\ art_box = <<watch>>
    /\ watch_age = 0

\* C18: under fair scheduling every catalog index is displayed again and
\* again, and never more than 2N - 2 other displays separate two displays of
\* it (or the start from its first display): from any point on, the index is
\* displayed by one of the next 2N - 1 ticks.
C18_EveryIndexShownWithinTwoCycles ==
    /\ [](watch_age <= 2 * ART_FRAME_COUNT - 2)
    /\ []<>WatchDisplayed

\* In a catalog of two the observed index opened one cycle and closes the
\* next: 2N - 2 displays of the other index lie in between.
C18_Witness ==
    /\ ART_FRAME_COUNT = 2
    /\ watch_age = 2 * ART_FRAME_COUNT - 2
    /\ shuffles = 2
    /\ order_pos = 1
    /\ order[1] = watch
    /\ NoTickRunning

\* C19: started and fired together and fed the same random words, the
\* delayed-work variant and the LVGL-timer variant have displayed the same
\* sequence of frames, show the same frame, hold the same order and
\* order_pos, and each has its timer armed for the next firing.
C19_VariantsAgree ==
    pair.started =>
       /\ pair.wk.frames = pair.lv.frames
       /\ pair.wk.art_box = pair.lv.art_box
       /\ pair.wk.order = pair.lv.order
       /\ pair.wk.order_pos = pair.lv.order_pos
       /\ pair.wk.armed /\ pair.lv.armed

\* Both variants of a three-frame catalog have run two whole cycles and the
\* first tick of a third.
C19_Witness ==
    /\ ART_FRAME_COUNT = 3
    /\ Len(pair.wk.frames) = 2 * ART_FRAME_COUNT + 1
    /\ Len(pair.lv.frames) = 2 * ART_FRAME_COUNT + 1
    /\ pair.lv.order_pos = 1
    /\ pair.wk.order_pos = 1

\* C21: for every catalog size N in 1..255, 30 included, no 8-bit quantity
\* of the sequencer wraps: the fill counter i stays in 0..N and grows by one
\* in each iteration, the entry stored in order[i] is i itself, order_pos
\* stays in 0..N through any number of ticks, and every shuffle_order leaves
\* its fill loop.
C21_NoWrapUpTo255 ==
    /\ DEPLOYED_FRAME_COUNT \in CatalogSizes8
    /\ [](/\ u8.n \in CatalogSizes8
          /\ ~u8.wrapped
          /\ u8.i \in 0 .. u8.n
          /\ u8.order_pos \in 0 .. u8.n
          /\ u8.entry \in 0 .. (u8.n - 1)
          /\ (u8.pc \in {"fill", "swap"} /\ u8.i > 0) => u8.entry = u8.i - 1
          /\ u8.pc = "show" => u8.order_pos < u8.n)
    /\ [][(u8.pc = "fill" /\ u8'.pc = "fill") => u8'.i = u8.i + 1]_vars
    /\ [](u8.pc = "fill" => <>(u8.pc = "swap" /\ u8.i = u8.n))

\* A catalog of 255 frames has been shown completely for the second time:
\* both the fill counter and the cursor stand at 255.
C21_Witness ==
    /\ u8.n = UINT8_RANGE - 1
    /\ u8.cycles = 2
    /\ u8.pc = "wait"
    /\ u8.i = u8.n
    /\ u8.order_pos = u8.n

============================================================================
